---------------------------- MODULE Spec2Model ----------------------------
(***************************************************************************)
(* Cyber_Radar: RSS ingestion into a CSV-backed article store.             *)
(*                                                                         *)
(*   src/app/database.py   CSVDatabase   (add_articles, get_articles,      *)
(*                                        get_stats, clear)                *)
(*   src/app/scraper.py    FeedScraper   (fetch_feed retry loop)           *)
(*   src/app/scraper.py    FeedScraper   (scrape_all_feeds, parse_entry)   *)
(*   src/app/scheduler.py  TaskScheduler (scrape_job, start, stop,         *)
(*                                        trigger_manual_scrape)           *)
(*   src/app/main.py       the HTTP endpoints                              *)
(*                                                                         *)
(* The specifications share the variables:                                 *)
(*   Spec       the article store driven by arbitrary callers              *)
(*   WriteSpec  the store under its writers alone (add_articles, clear)    *)
(*   FetchSpec  fetch_feed, called again and again on one URL              *)
(*   SchedSpec  the scheduler's threads running scrape_job                 *)
(*   LockSpec   two threads inside the store's operations, step by step    *)
(*   PipeSpec   scrape_job with the pipeline run computed from the feeds   *)
(*   ApiSpec    the HTTP endpoints over the store and the scheduler        *)
(*   UtilSpec   the pure helpers of utils.py, called on bounded inputs     *)
(*   KeepSpec   the store's writers, with text that read_csv takes as NaN  *)
(*   GatherSpec the concurrent fetch_feed tasks of one pipeline run        *)
(*                                                                         *)
(* Text is a sequence of one-character strings, so that lower-casing and   *)
(* pattern search are computed and not assumed.  An instant is a natural   *)
(* number; instants above TimestampMax stand for datetimes that pandas'    *)
(* datetime64[ns] cannot hold (years after 2262).  Ids are taken to hold   *)
(* at least one letter, so read_csv keeps the id column as text.           *)
(***************************************************************************)
EXTENDS Integers, Sequences, FiniteSets

(***************************************************************************)
(* Bounds of the model.                                                    *)
(***************************************************************************)
\* settings.max_records, scaled down from 10000 so that trimming happens
max_records == 2
\* longest batch handed to add_articles
MaxBatch == 2
\* largest limit and offset given to get_articles
MaxLimit == 2
MaxOffset == 2

\* scrape_job executions one behaviour starts
MaxRuns == 2

\* configured feeds (len(settings.rss_feeds))
NumFeeds == 2
\* entries taken from one feed, scaled down from 50
EntryLimit == 2

\* settings.max_retries
max_retries == 3

\* greatest instant a parsed 'published' column can hold; a later one is
\* coerced to NaT by pd.to_datetime(..., errors='coerce')
TimestampMax == 3

VARIABLES
    csv,        \* the backing file: the rows below the header, in file order
    last,       \* the last store operation: its arguments and what it returned
    ingested,   \* ids handed to add_articles since construction / clear
    attempt,    \* fetch_feed: loop variable of "for attempt in range(max_retries)"
    fpc,        \* fetch_feed: position in the loop
    responses,  \* fetch_feed: outcome of every attempt made so far
    sleeps,     \* fetch_feed: number of asyncio.sleep(retry_delay) calls made
    result,     \* fetch_feed: value returned
    is_running, \* TaskScheduler.is_running
    job_added,  \* the 'scrape_feeds' interval job is registered
    last_stats, \* TaskScheduler.last_stats
    last_scrape,\* TaskScheduler.last_scrape (number of the run that set it)
    pc,         \* scheduler: position of each thread
    run,        \* scheduler: what each thread's scrape_job holds
    runs,       \* scheduler: number of scrape_job executions started
    returned,   \* scheduler: what the last trigger_manual_scrape returned
    stopping,   \* scheduler: a stop() call is inside shutdown(wait=True)
    lock,       \* CSVDatabase.lock: "free" or the thread that holds it
    call_of,    \* store: the operation each thread is inside, and its locals
    done,       \* store: how each thread's last operation ended
    pipe,       \* pipeline: what the last scrape_all_feeds saw and returned
    api_key_enabled, \* settings.api_key_enabled
    api,        \* HTTP: the last request and the response to it
    util,       \* utils.py: the last two helper calls, arguments and results
    tasks,      \* scrape_all_feeds: the fetch_feed task of every feed
    gpc         \* scrape_all_feeds: position around asyncio.gather

storeVars == <<csv, last, ingested>>
fetchVars == <<attempt, fpc, responses, sleeps, result>>
schedVars == <<is_running, job_added, last_stats, last_scrape, pc, run, runs,
               returned, stopping>>
lockVars == <<lock, call_of, done>>
pipeVars == <<pipe>>
apiVars == <<api_key_enabled, api>>
utilVars == <<util>>
gatherVars == <<tasks, gpc>>
vars == <<csv, last, ingested, attempt, fpc, responses, sleeps, result,
          is_running, job_added, last_stats, last_scrape, pc, run, runs, returned,
          stopping, lock, call_of, done, pipe, api_key_enabled, api, util,
          tasks, gpc>>

(***************************************************************************)
(* Values                                                                  *)
(***************************************************************************)
Min(a, b) == IF a < b THEN a ELSE b
Max(a, b) == IF a > b THEN a ELSE b

\* pandas' missing value for a text cell; no text equals it
NaN == <<"NaN">>
\* pandas' missing value for a datetime cell
NaT == -1

\* str.lower() on the characters used here
LowerChar(c) == CASE c = "A" -> "a" [] c = "B" -> "b" [] OTHER -> c
Lower(s) == [i \in DOMAIN s |-> LowerChar(s[i])]

\* VulnerabilityArticle objects callers may hand to add_articles.  k1 and k2
\* carry the same id (one feed entry seen twice with a changed date and
\* category); k3 has an empty description; k5 is dated after TimestampMax.
k1 == [id |-> "i1", title |-> <<"A", "b">>, description |-> <<"b">>,
       source |-> <<"N">>, category |-> "vulnerability", published |-> 2]
k2 == [id |-> "i1", title |-> <<"A", "b">>, description |-> <<"b">>,
       source |-> <<"N">>, category |-> "threat", published |-> 1]
k3 == [id |-> "i2", title |-> <<"a">>, description |-> <<>>,
       source |-> <<"n">>, category |-> "vulnerability", published |-> 2]
k4 == [id |-> "i3", title |-> <<"b">>, description |-> <<"a">>,
       source |-> <<"k">>, category |-> "threat", published |-> 1]
k5 == [id |-> "i4", title |-> <<"a">>, description |-> <<"a">>,
       source |-> <<"n">>, category |-> "other", published |-> 4]
k6 == [id |-> "i5", title |-> <<"b", "a">>, description |-> <<"b">>,
       source |-> <<"k">>, category |-> "vulnerability", published |-> 3]
\* k7's description is the text "NA"
k7 == [id |-> "i6", title |-> <<"a">>, description |-> <<"N", "A">>,
       source |-> <<"n">>, category |-> "other", published |-> 2]
Catalogue == <<k1, k2, k3, k4, k5, k6>>
Articles == {Catalogue[i] : i \in DOMAIN Catalogue}

\* The batches callers hand over: any articles, repeated or not.  The order
\* of a batch never reaches the file (add_articles sorts, and rows of equal
\* date may land in any order), so each batch is listed once, in catalogue
\* order.
Batches ==
    UNION {{[i \in 1..n |-> Catalogue[f[i]]] :
               f \in {g \in [1..n -> DOMAIN Catalogue] :
                         \A i \in 1..n, j \in 1..n : i <= j => g[i] <= g[j]}} :
           n \in 0..MaxBatch}


(***************************************************************************)
(* CSVDatabase: the file and the pandas calls made on it                   *)
(***************************************************************************)
\* read_csv's default na_values: the empty field and the markers "NA", "N/A",
\* "null", "None", "nan", ... (one of them here)
na_values == {<<>>, <<"N", "A">>}

\* to_csv writes an empty string and a missing value alike as an empty field;
\* read_csv reads an empty field, and a field holding a marker, back as NaN
read_cell(c) == IF c \in na_values THEN NaN ELSE c
write_cell(c) == IF c = NaN THEN <<>> ELSE c

read_csv(file) ==
    [i \in DOMAIN file |->
        [file[i] EXCEPT !.title = read_cell(@), !.description = read_cell(@),
                        !.source = read_cell(@)]]

to_csv(df) ==
    [i \in DOMAIN df |->
        [df[i] EXCEPT !.title = write_cell(@), !.description = write_cell(@),
                      !.source = write_cell(@)]]

\* pd.to_datetime(column, format='ISO8601', errors='coerce')
to_datetime(df) ==
    [i \in DOMAIN df |->
        [df[i] EXCEPT !.published = IF @ <= TimestampMax THEN @ ELSE NaT]]

\* df.dropna(subset=['published'])
dropna(df) == SelectSeq(df, LAMBDA r : r.published # NaT)

Remove(df, i) == SubSeq(df, 1, i - 1) \o SubSeq(df, i + 1, Len(df))

\* sort_values, were it to leave the rows in the order of the frame
unsorted(df) == {df}

\* df.sort_values('published', ascending=False): the default sort kind is not
\* stable, so rows with equal 'published' may come out in any order.  The
\* operator is the set of orders the call can produce.
RECURSIVE sort_values(_)
sort_values(df) ==
    IF df = <<>> THEN {<<>>}
    ELSE LET newest == {i \in DOMAIN df :
                           \A j \in DOMAIN df : df[j].published <= df[i].published}
         IN  UNION {{<<df[i]>> \o rest : rest \in sort_values(Remove(df, i))} :
                        i \in newest}

\* head, were it to keep the last n rows
head_oldest(df, n) == SubSeq(df, Len(df) - Min(n, Len(df)) + 1, Len(df))

\* df.head(n)
head(df, n) == SubSeq(df, 1, Min(n, Len(df)))

\* df.iloc[offset:]
iloc_from(df, offset) == SubSeq(df, offset + 1, Len(df))

ids_of(df) == {df[i].id : i \in DOMAIN df}

\* the rows add_articles builds from the articles that are not duplicates
new_rows(articles, existing_ids) ==
    SelectSeq(articles, LAMBDA a : a.id \notin existing_ids)

\* absent optional arguments of get_articles
NoDate == 0
NoCategory == "None"
NoQuery == [limit |-> 0, offset |-> 0, source |-> <<>>, category |-> NoCategory,
            start_date |-> NoDate, end_date |-> NoDate, search |-> <<>>]

Observed(op, batch, before, combined, ret, repeat, q, page, total) ==
    [op |-> op, batch |-> batch, before |-> before, combined |-> combined,
     ret |-> ret, repeat |-> repeat, q |-> q, page |-> page, total |-> total]

\* The ids handed to add_articles since the store was constructed or
\* cleared, kept for as long as every article handed over had an id of its
\* own and there were no more than max_records of them; Spoiled afterwards.
Fresh == [ids |-> {}, clean |-> TRUE]
Spoiled == [ids |-> {}, clean |-> FALSE]
Ingest(articles) ==
    LET ids == ingested.ids \cup ids_of(articles)
    IN  IF /\ ingested.clean
           /\ Cardinality(ids) = Cardinality(ingested.ids) + Len(articles)
           /\ Cardinality(ids) <= max_records
        THEN [ids |-> ids, clean |-> TRUE]
        ELSE Spoiled

(***************************************************************************)
(* CSVDatabase.add_articles                                                *)
(***************************************************************************)
\* lines 56-85: the frame the sort is applied to, before the date parsing
combined(file, articles) ==
    read_csv(file) \o new_rows(articles, ids_of(read_csv(file)))

\* the files and return values one call can end with
add_outcomes(file, articles) ==
    LET existing_df  == read_csv(file)
        new_articles == new_rows(articles, ids_of(existing_df))
        dated        == dropna(to_datetime(combined(file, articles)))
    IN  IF articles = <<>> \/ new_articles = <<>>
        THEN {[file |-> file, ret |-> 0]}
        ELSE {[file |-> to_csv(head(sorted, max_records)), ret |-> Len(new_articles)] :
                  sorted \in sort_values(dated)}

add_articles(articles) ==
    /\ \E out \in add_outcomes(csv, articles) :
          /\ csv' = out.file
          /\ last' = Observed("add", articles, csv, to_csv(combined(csv, articles)),
                              out.ret, last.op = "add" /\ last.batch = articles,
                              NoQuery, <<>>, 0)
    /\ ingested' = Ingest(articles)
    /\ UNCHANGED <<fetchVars, schedVars, lockVars, pipeVars, apiVars, utilVars,
                   gatherVars>>

(***************************************************************************)
(* CSVDatabase.get_articles                                                *)
(***************************************************************************)
\* Series.str.contains(pat, na=False): pat is a regular expression, searched
\* for anywhere in the cell; "." stands for any character; a missing cell
\* never matches
str_contains(cell, pat) ==
    /\ cell # NaN
    /\ \E i \in 0..(Len(cell) - Len(pat)) :
          \A k \in 1..Len(pat) : pat[k] = "." \/ pat[k] = cell[i + k]

\* Series.str.lower() keeps a missing cell missing
str_lower(cell) == IF cell = NaN THEN NaN ELSE Lower(cell)

\* the boolean masks of lines 178-195, one after the other
filter_rows(df, q) ==
    LET by_source == IF q.source # <<>>
                     THEN SelectSeq(df, LAMBDA r : str_lower(r.source) = Lower(q.source))
                     ELSE df
        by_category == IF q.category # NoCategory
                       THEN SelectSeq(by_source, LAMBDA r : r.category = q.category)
                       ELSE by_source
        by_start == IF q.start_date # NoDate
                    THEN SelectSeq(by_category, LAMBDA r : r.published >= q.start_date)
                    ELSE by_category
        by_end == IF q.end_date # NoDate
                  THEN SelectSeq(by_start, LAMBDA r : r.published <= q.end_date)
                  ELSE by_start
    IN  IF q.search # <<>>
        THEN SelectSeq(by_end, LAMBDA r :
                 \/ str_contains(str_lower(r.title), Lower(q.search))
                 \/ str_contains(str_lower(r.description), Lower(q.search)))
        ELSE by_end

\* VulnerabilityArticle(**row) raises for a row whose str field holds NaN;
\* get_articles logs it and leaves the row out of the page
validates(row) ==
    row.title # NaN /\ row.description # NaN /\ row.source # NaN

to_models(df) == SelectSeq(df, validates)

paginate(df, limit, offset) ==
    LET skipped == iloc_from(df, offset)
    IN  IF limit # 0 THEN head(skipped, limit) ELSE skipped

\* the filters callers pass: none, each alone, and some together
Filters ==
    {f \in [source : {<<>>, <<"N">>}, category : {NoCategory, "vulnerability"},
            start_date : {NoDate, 2}, end_date : {NoDate, 2},
            search : {<<>>, <<"B">>, <<".">>, <<"a", "b">>}] :
        \/ f.search = <<>>
        \/ f.start_date = NoDate /\ f.end_date = NoDate /\ f.category = NoCategory}

Query(limit, offset, f) ==
    [limit |-> limit, offset |-> offset, source |-> f.source,
     category |-> f.category, start_date |-> f.start_date,
     end_date |-> f.end_date, search |-> f.search]

\* limit 0 is the falsy limit (None) of line 201
Queries ==
    {Query(limit, offset, f) : limit \in 0..MaxLimit, offset \in 0..MaxOffset,
                               f \in Filters}

\* lines 152-223: the page and the total count of one call on the file
select_articles(file, q) ==
    LET df       == dropna(to_datetime(read_csv(file)))
        filtered == filter_rows(df, q)
    IN  IF file = <<>>
        THEN [page |-> <<>>, total |-> 0]
        ELSE [page |-> to_models(paginate(filtered, q.limit, q.offset)),
              total |-> Len(filtered)]

get_articles(q) ==
    LET found == select_articles(csv, q)
    IN  /\ last' = Observed("get", <<>>, csv, <<>>, 0, FALSE, q, found.page,
                            found.total)
        /\ UNCHANGED <<csv, ingested, fetchVars, schedVars, lockVars, pipeVars, apiVars,
                   utilVars, gatherVars>>

(***************************************************************************)
(* CSVDatabase.get_stats                                                   *)
(***************************************************************************)
\* Series.unique().tolist(): the values in the order of their first rows
RECURSIVE unique(_)
unique(column) ==
    IF column = <<>> THEN <<>>
    ELSE LET rest == unique(SubSeq(column, 1, Len(column) - 1))
             x == column[Len(column)]
         IN  IF \E i \in DOMAIN rest : rest[i] = x THEN rest ELSE Append(rest, x)

\* Series.value_counts().to_dict()
value_counts(column) ==
    [x \in {column[i] : i \in DOMAIN column} |->
        Cardinality({i \in DOMAIN column : column[i] = x})]

\* lines 238-267: the dictionary returned for the file; None is <<>>
get_stats(file) ==
    LET df == dropna(to_datetime(read_csv(file)))
        published == {df[i].published : i \in DOMAIN df}
    IN  IF file = <<>>
        THEN [total_articles |-> 0, sources |-> <<>>, categories |-> <<>>,
              oldest_article |-> <<>>, newest_article |-> <<>>]
        ELSE [total_articles |-> Len(df),
              sources |-> unique([i \in DOMAIN df |-> df[i].source]),
              categories |-> value_counts([i \in DOMAIN df |-> df[i].category]),
              oldest_article |->
                  IF Len(df) > 0
                  THEN <<CHOOSE p \in published : \A o \in published : p <= o>>
                  ELSE <<>>,
              newest_article |->
                  IF Len(df) > 0
                  THEN <<CHOOSE p \in published : \A o \in published : p >= o>>
                  ELSE <<>>]

(***************************************************************************)
(* CSVDatabase.clear                                                       *)
(***************************************************************************)
\* clear, were it to leave the file as it is
clear_kept ==
    /\ csv' = csv
    /\ ingested' = Fresh
    /\ last' = Observed("clear", <<>>, csv, <<>>, 0, FALSE, NoQuery, <<>>, 0)
    /\ UNCHANGED <<fetchVars, schedVars, lockVars, pipeVars, apiVars, utilVars,
                   gatherVars>>

clear ==
    /\ csv' = <<>>
    /\ ingested' = Fresh
    /\ last' = Observed("clear", <<>>, csv, <<>>, 0, FALSE, NoQuery, <<>>, 0)
    /\ UNCHANGED <<fetchVars, schedVars, lockVars, pipeVars, apiVars, utilVars,
                   gatherVars>>


(***************************************************************************)
(* FeedScraper.fetch_feed                                                  *)
(***************************************************************************)
\* what one session.get can end with: a response (whose body feedparser
\* finds well-formed or not), the timeout, or any other exception
Response(status, bozo) == [kind |-> "response", status |-> status, bozo |-> bozo]
Timeout == [kind |-> "timeout", status |-> 0, bozo |-> FALSE]
TransportError == [kind |-> "error", status |-> 0, bozo |-> FALSE]
Outcomes ==
    {Response(200, FALSE), Response(200, TRUE), Response(204, FALSE),
     Response(404, FALSE), Response(500, FALSE), Timeout, TransportError}

\* line 40
accepted(o) == o.kind = "response" /\ o.status = 200

\* lines 31-56: one pass of the loop body, up to the test of line 57
fetch_attempt(o) ==
    /\ fpc = "request"
    /\ responses' = Append(responses, o)
    /\ IF accepted(o)
       THEN /\ result' = IF o.bozo THEN "bozo feed" ELSE "feed"
            /\ fpc' = "done"
            /\ UNCHANGED attempt
       ELSE IF attempt < max_retries - 1
            THEN fpc' = "sleep" /\ UNCHANGED <<attempt, result>>
            ELSE fpc' = "done" /\ result' = "None" /\ UNCHANGED attempt
    /\ UNCHANGED <<sleeps, storeVars, schedVars, lockVars, pipeVars, apiVars, utilVars,
                   gatherVars>>

\* line 58, and the loop's step to the next attempt
fetch_sleep ==
    /\ fpc = "sleep"
    /\ sleeps' = sleeps + 1
    /\ attempt' = attempt + 1
    /\ fpc' = "request"
    /\ UNCHANGED <<responses, result, storeVars, schedVars, lockVars, pipeVars,
                   apiVars, utilVars, gatherVars>>

\* the next call of fetch_feed
fetch_feed ==
    /\ fpc = "done"
    /\ attempt' = 0
    /\ fpc' = "request"
    /\ responses' = <<>>
    /\ sleeps' = 0
    /\ result' = "pending"
    /\ UNCHANGED <<storeVars, schedVars, lockVars, pipeVars, apiVars, utilVars,
                   gatherVars>>


(***************************************************************************)
(* TaskScheduler                                                           *)
(*                                                                         *)
(* Two threads call scrape_job: "timer", the worker on which APScheduler   *)
(* executes the interval job, and "loop", the server's event-loop thread   *)
(* on which start and the request handlers (trigger_manual_scrape) run one *)
(* after the other.  stop is a public method like the others: nothing in   *)
(* TaskScheduler ties its caller to the thread that runs a manual scrape.  *)
(***************************************************************************)
Threads == {"loop", "timer"}

\* ScrapeStats; run numbers the scrape_job execution that built it.
\* NoStats is None.
Stats(n, new, total) == [run |-> n, new_articles |-> new, total_articles |-> total]
NoStats == Stats(0, 0, 0)
NoRun == [kind |-> "none", articles |-> <<>>, stats |-> NoStats,
          store_failed |-> FALSE]

\* what trigger_manual_scrape handed to its caller: the value of line 93, and
\* whether the call raised
NoReturn == [call |-> 0, stats |-> NoStats, store_failed |-> FALSE, raised |-> FALSE]

\* no request yet
NoRequest == [endpoint |-> "none", key |-> "none", status |-> 0, handler |-> FALSE,
              calls |-> <<>>, arg |-> [none |-> TRUE], total |-> 0, page |-> <<>>]

\* article lists scraper.scrape_sync() hands back
Scraped == {<<>>, <<k1>>, <<k4, k6>>, <<k5>>}

\* entry of scrape_job on thread t (line 26)
enter_scrape_job(t, kind) ==
    /\ runs < MaxRuns
    /\ runs' = runs + 1
    /\ pc' = [pc EXCEPT ![t] = "scrape"]
    /\ run' = [run EXCEPT ![t] = [kind |-> kind, articles |-> <<>>,
                                  stats |-> Stats(runs + 1, 0, 0),
                                  store_failed |-> FALSE]]

\* TaskScheduler.start
start(run_immediately) ==
    /\ pc["loop"] = "idle"
    /\ IF is_running
       THEN UNCHANGED <<is_running, job_added, pc, run, runs>>
       ELSE /\ job_added' = TRUE
            /\ is_running' = TRUE
            /\ IF run_immediately
               THEN enter_scrape_job("loop", "immediate")
               ELSE UNCHANGED <<pc, run, runs>>
    /\ UNCHANGED <<last_stats, last_scrape, returned, stopping, storeVars, fetchVars,
                   lockVars, pipeVars, apiVars, utilVars, gatherVars>>

\* the trigger, were it to fire whether the job is registered or not
tick_unregistered ==
    /\ IF pc["timer"] = "idle"
       THEN enter_scrape_job("timer", "timer")
       ELSE UNCHANGED <<pc, run, runs>>
    /\ UNCHANGED <<is_running, job_added, last_stats, last_scrape, returned,
                   stopping, storeVars, fetchVars, lockVars, pipeVars, apiVars,
                   utilVars, gatherVars>>

\* the interval trigger falls due; max_instances=1 skips it while the job's
\* previous instance is still executing
tick ==
    /\ job_added
    /\ IF pc["timer"] = "idle"
       THEN enter_scrape_job("timer", "timer")
       ELSE UNCHANGED <<pc, run, runs>>
    /\ UNCHANGED <<is_running, job_added, last_stats, last_scrape, returned,
                   stopping, storeVars, fetchVars, lockVars, pipeVars, apiVars,
                   utilVars, gatherVars>>

\* TaskScheduler.trigger_manual_scrape, line 92
trigger_manual_scrape ==
    /\ pc["loop"] = "idle"
    /\ enter_scrape_job("loop", "manual")
    /\ UNCHANGED <<is_running, job_added, last_stats, last_scrape, returned,
                   stopping, storeVars, fetchVars, lockVars, pipeVars, apiVars,
                   utilVars, gatherVars>>

\* line 30: the pipeline run; it hands back the articles or raises
scrape_sync(t) ==
    /\ pc[t] = "scrape"
    /\ \/ \E articles \in Scraped :
             /\ run' = [run EXCEPT ![t].articles = articles,
                                   ![t].stats.new_articles = Len(articles)]
             /\ pc' = [pc EXCEPT ![t] = "insert"]
       \/ pc' = [pc EXCEPT ![t] = "except"] /\ UNCHANGED run
    /\ UNCHANGED <<is_running, job_added, last_stats, last_scrape, runs, returned,
                   stopping, storeVars, fetchVars, lockVars, pipeVars, apiVars,
                   utilVars, gatherVars>>

\* lines 32-34: the store insert; it returns the count or raises
insert(t) ==
    /\ pc[t] = "insert"
    /\ \/ \E out \in add_outcomes(csv, run[t].articles) :
             /\ csv' = out.file
             /\ run' = [run EXCEPT ![t].stats.new_articles = out.ret]
             /\ pc' = [pc EXCEPT ![t] = "stats"]
       \/ /\ run[t].articles # <<>>
          /\ pc' = [pc EXCEPT ![t] = "except"]
          /\ run' = [run EXCEPT ![t].store_failed = TRUE]
          /\ UNCHANGED csv
    /\ UNCHANGED <<is_running, job_added, last_stats, last_scrape, runs, returned,
                   stopping, last, ingested, fetchVars, lockVars, pipeVars, apiVars,
                   utilVars, gatherVars>>

\* get_stats()['total_articles'] (database.py lines 238-262)
total_articles(file) == Len(dropna(to_datetime(read_csv(file))))

\* lines 36-37: get_stats returns {} when the read fails, and get() then
\* supplies 0
read_stats(t) ==
    /\ pc[t] = "stats"
    /\ \/ run' = [run EXCEPT ![t].stats.total_articles = total_articles(csv)]
       \/ run' = [run EXCEPT ![t].stats.total_articles = 0,
                             ![t].store_failed = TRUE]
    /\ pc' = [pc EXCEPT ![t] = "record"]
    /\ UNCHANGED <<is_running, job_added, last_stats, last_scrape, runs, returned,
                   stopping, storeVars, fetchVars, lockVars, pipeVars, apiVars,
                   utilVars, gatherVars>>

\* lines 40-41
record(t) ==
    /\ pc[t] = "record"
    /\ last_scrape' = run[t].stats.run
    /\ last_stats' = run[t].stats
    /\ pc' = [pc EXCEPT ![t] = "return"]
    /\ UNCHANGED <<is_running, job_added, run, runs, returned, stopping, storeVars,
                   fetchVars, lockVars, pipeVars, apiVars, utilVars, gatherVars>>

\* lines 48-49: the run failed; it is logged and scrape_job returns normally
except(t) ==
    /\ pc[t] = "except"
    /\ pc' = [pc EXCEPT ![t] = "return"]
    /\ UNCHANGED <<is_running, job_added, last_stats, last_scrape, run, runs,
                   returned, stopping, storeVars, fetchVars, lockVars, pipeVars,
                   apiVars, utilVars, gatherVars>>

\* scrape_job returns to its caller; trigger_manual_scrape then returns
\* self.last_stats (line 93), and the POST /api/v1/scrape handler, when it is
\* the caller, answers with it (main.py lines 264-265): None does not
\* validate against response_model=ScrapeStats
return(t) ==
    /\ pc[t] = "return"
    /\ pc' = [pc EXCEPT ![t] = "idle"]
    /\ run' = [run EXCEPT ![t] = NoRun]
    /\ returned' = IF run[t].kind = "manual"
                   THEN [call |-> run[t].stats.run, stats |-> last_stats,
                         store_failed |-> run[t].store_failed, raised |-> FALSE]
                   ELSE returned
    /\ api' = IF run[t].kind = "manual" /\ api.endpoint = "scrape" /\ api.status = 0
              THEN [api EXCEPT !.status = IF last_stats = NoStats THEN 500 ELSE 200]
              ELSE api
    /\ UNCHANGED <<is_running, job_added, last_stats, last_scrape, runs, stopping,
                   storeVars, fetchVars, lockVars, pipeVars, api_key_enabled,
                   utilVars, gatherVars>>

\* TaskScheduler.stop, lines 82-86: shutdown(wait=True) stops the trigger and
\* blocks until the executor's running job has ended
stop ==
    /\ ~stopping
    /\ IF is_running
       THEN job_added' = FALSE /\ stopping' = TRUE
       ELSE UNCHANGED <<job_added, stopping>>
    /\ UNCHANGED <<is_running, last_stats, last_scrape, pc, run, runs, returned,
                   storeVars, fetchVars, lockVars, pipeVars, apiVars, utilVars,
                   gatherVars>>

\* line 87, once shutdown has returned
stopped ==
    /\ stopping
    /\ pc["timer"] = "idle"
    /\ is_running' = FALSE
    /\ stopping' = FALSE
    /\ UNCHANGED <<job_added, last_stats, last_scrape, pc, run, runs, returned,
                   storeVars, fetchVars, lockVars, pipeVars, apiVars, utilVars,
                   gatherVars>>

(***************************************************************************)
(* CSVDatabase under concurrent callers                                    *)
(*                                                                         *)
(* The same four operations, cut at their accesses to self.lock and to the *)
(* file: the call, the entry of "with self.lock", pd.read_csv, and to_csv. *)
(* Each access to the file either succeeds or raises (OSError, parser      *)
(* error).  The callers are the two threads of the server: the request     *)
(* handlers on "loop" and the interval job on "timer".                     *)
(***************************************************************************)
Idle == [name |-> "idle", pc |-> "idle", batch |-> <<>>, seen |-> <<>>,
         overlap |-> FALSE]

\* how an operation ended: by a return or by an exception; io_failed says
\* that one of its accesses to the file raised; atomic, that what it wrote is
\* what the whole operation makes of the file as it stood at the write;
\* overlap, that it was called while another thread was inside add_articles
\* with the lock held
Outcome(name, batch, io_failed, raised, atomic, overlap) ==
    [name |-> name, batch |-> batch, io_failed |-> io_failed, raised |-> raised,
     atomic |-> atomic, overlap |-> overlap]
NoOutcome == Outcome("none", <<>>, FALSE, FALSE, TRUE, FALSE)

Operations == {"add_articles", "get_articles", "get_stats", "clear"}

\* the batches the callers insert
ThreadBatches == {<<>>, <<k1>>, <<k4>>, <<k4, k6>>}

\* thread t calls an operation.  add_articles([]) returns at line 51, before
\* the lock.
call(t, name, batch) ==
    /\ call_of[t].pc = "idle"
    /\ IF name = "add_articles" /\ batch = <<>>
       THEN /\ done' = [done EXCEPT ![t] = Outcome(name, batch, FALSE, FALSE, TRUE,
                                                   FALSE)]
            /\ UNCHANGED call_of
       ELSE /\ call_of' = [call_of EXCEPT ![t] =
                        [name |-> name, pc |-> "acquire", batch |-> batch,
                         seen |-> <<>>,
                         overlap |-> \E u \in Threads \ {t} :
                                        /\ call_of[u].name = "add_articles"
                                        /\ call_of[u].pc \in {"read", "write"}]]
            /\ UNCHANGED done
    /\ UNCHANGED <<lock, storeVars, fetchVars, schedVars, pipeVars, apiVars, utilVars,
                   gatherVars>>

\* "with self.lock:" were it to enter without waiting for the lock
acquire_unguarded(t) ==
    /\ call_of[t].pc = "acquire"
    /\ lock' = t
    /\ call_of' = [call_of EXCEPT
                      ![t].pc = IF call_of[t].name = "clear" THEN "write" ELSE "read"]
    /\ UNCHANGED <<done, storeVars, fetchVars, schedVars, pipeVars, apiVars, utilVars,
                   gatherVars>>

\* "with self.lock:" (lines 53, 150, 236, 275): Lock.acquire blocks until the
\* lock is free
acquire(t) ==
    /\ call_of[t].pc = "acquire"
    /\ lock = "free"
    /\ lock' = t
    /\ call_of' = [call_of EXCEPT
                      ![t].pc = IF call_of[t].name = "clear" THEN "write" ELSE "read"]
    /\ UNCHANGED <<done, storeVars, fetchVars, schedVars, pipeVars, apiVars, utilVars,
                   gatherVars>>

\* the operation of thread t ends and leaves the with block
leave(t, io_failed, raised, atomic) ==
    /\ done' = [done EXCEPT ![t] = Outcome(call_of[t].name, call_of[t].batch, io_failed,
                                           raised, atomic, call_of[t].overlap)]
    /\ call_of' = [call_of EXCEPT ![t] = Idle]
    /\ lock' = "free"

\* pd.read_csv (lines 56, 152, 238) and what follows it up to the next access
\* to the file.  get_articles and get_stats return from here; add_articles
\* returns 0 from here when the batch holds nothing new (line 67).  A failed
\* read is re-raised by add_articles and get_articles (lines 121-123,
\* 225-227) and answered with {} by get_stats (lines 269-271).
read(t) ==
    /\ call_of[t].pc = "read"
    /\ \/ /\ call_of[t].name = "add_articles"
          /\ new_rows(call_of[t].batch, ids_of(read_csv(csv))) # <<>>
          /\ call_of' = [call_of EXCEPT ![t].pc = "write", ![t].seen = csv]
          /\ UNCHANGED <<lock, done>>
       \/ /\ call_of[t].name = "add_articles"
          /\ new_rows(call_of[t].batch, ids_of(read_csv(csv))) = <<>>
          /\ leave(t, FALSE, FALSE, TRUE)
       \/ /\ call_of[t].name \in {"get_articles", "get_stats"}
          /\ leave(t, FALSE, FALSE, TRUE)
       \/ /\ call_of[t].name \in {"add_articles", "get_articles"}
          /\ leave(t, TRUE, TRUE, TRUE)
       \/ /\ call_of[t].name = "get_stats"
          /\ leave(t, TRUE, FALSE, TRUE)
    /\ UNCHANGED <<storeVars, fetchVars, schedVars, pipeVars, apiVars, utilVars,
                   gatherVars>>

\* to_csv (lines 116, 280): add_articles writes what it made of the frame it
\* read; clear writes the header alone.  A failed write is re-raised by
\* add_articles, and clear has no handler at all.
write(t) ==
    /\ call_of[t].pc = "write"
    /\ \/ /\ call_of[t].name = "add_articles"
          /\ \E out \in add_outcomes(call_of[t].seen, call_of[t].batch) :
                /\ csv' = out.file
                /\ leave(t, FALSE, FALSE,
                         out.file \in {o.file : o \in add_outcomes(csv, call_of[t].batch)})
       \/ /\ call_of[t].name = "clear"
          /\ csv' = <<>>
          /\ leave(t, FALSE, FALSE, TRUE)
       \/ /\ leave(t, TRUE, TRUE, TRUE)
          /\ UNCHANGED csv
    /\ UNCHANGED <<last, ingested, fetchVars, schedVars, pipeVars, apiVars, utilVars,
                   gatherVars>>


(***************************************************************************)
(* utils.py: the helpers parse_entry calls                                 *)
(***************************************************************************)
\* "keyword in text", were it text.startswith(keyword)
occurs_at_start(word, text) ==
    Len(word) <= Len(text) /\ \A k \in 1..Len(word) : text[k] = word[k]

\* "keyword in text"
occurs_in(word, text) ==
    \E i \in 0..(Len(text) - Len(word)) : \A k \in 1..Len(word) : text[i + k] = word[k]

\* sha256(title + link).hexdigest()[:16]: the digest stands for the text it
\* was made from
generate_article_id(title, link) == title \o link

\* the table of lines 49-56, in the order the dict is written
category_keywords == <<
    [category |-> "vulnerability",
     keywords |-> <<
           <<"c", "v", "e">>,
           <<"v", "u", "l", "n", "e", "r", "a", "b", "i", "l", "i", "t", "y">>,
           <<"v", "u", "l", "n">>,
           <<"f", "l", "a", "w">>,
           <<"w", "e", "a", "k", "n", "e", "s", "s">>>>],
    [category |-> "threat",
     keywords |-> <<
           <<"t", "h", "r", "e", "a", "t">>,
           <<"a", "t", "t", "a", "c", "k">>,
           <<"c", "a", "m", "p", "a", "i", "g", "n">>,
           <<"a", "p", "t">>,
           <<"a", "c", "t", "o", "r">>>>],
    [category |-> "breach",
     keywords |-> <<
           <<"b", "r", "e", "a", "c", "h">>,
           <<"l", "e", "a", "k">>,
           <<"d", "a", "t", "a", " ", "b", "r", "e", "a", "c", "h">>,
           <<"c", "o", "m", "p", "r", "o", "m", "i", "s", "e", "d">>,
           <<"h", "a", "c", "k", "e", "d">>>>],
    [category |-> "advisory",
     keywords |-> <<
           <<"a", "d", "v", "i", "s", "o", "r", "y">>,
           <<"a", "l", "e", "r", "t">>,
           <<"w", "a", "r", "n", "i", "n", "g">>,
           <<"b", "u", "l", "l", "e", "t", "i", "n">>>>],
    [category |-> "malware",
     keywords |-> <<
           <<"m", "a", "l", "w", "a", "r", "e">>,
           <<"r", "a", "n", "s", "o", "m", "w", "a", "r", "e">>,
           <<"t", "r", "o", "j", "a", "n">>,
           <<"v", "i", "r", "u", "s">>,
           <<"b", "a", "c", "k", "d", "o", "o", "r">>>>],
    [category |-> "exploit",
     keywords |-> <<
           <<"e", "x", "p", "l", "o", "i", "t">>,
           <<"p", "o", "c">>,
           <<"p", "r", "o", "o", "f", " ", "o", "f", " ", "c", "o", "n", "c", "e", "p", "t">>,
           <<"0", "-", "d", "a", "y">>,
           <<"z", "e", "r", "o", "-", "d", "a", "y">>>>]>>

\* lines 46-68: the category most of whose keywords occur in the lower-cased
\* "title description"; max() keeps the first of several best ones; OTHER
\* when no keyword occurs
categorize_article(title, description) ==
    LET text == Lower(title \o <<" ">> \o description)
        score(c) == Cardinality({k \in DOMAIN category_keywords[c].keywords :
                                    occurs_in(category_keywords[c].keywords[k], text)})
        scored == {c \in DOMAIN category_keywords : score(c) > 0}
    IN  IF scored = {} THEN "other"
        ELSE category_keywords[
                 CHOOSE c \in scored :
                     /\ \A d \in scored : score(d) <= score(c)
                     /\ \A d \in scored : score(d) = score(c) => c <= d].category

\* ' '.join(text.split()): the characters of text from position i on, without
\* leading and trailing blanks and with one blank for every run of blanks
RECURSIVE join_split(_, _)
join_split(text, i) ==
    IF i > Len(text) THEN <<>>
    ELSE IF text[i] # " " THEN <<text[i]>> \o join_split(text, i + 1)
    ELSE IF /\ i > 1 /\ text[i - 1] # " "
            /\ \E j \in (i + 1)..Len(text) : text[j] # " "
         THEN <<" ">> \o join_split(text, i + 1)
         ELSE join_split(text, i + 1)

\* max_length of titles (500) and descriptions (2000), scaled down
title_max_length == 5
description_max_length == 6

\* lines 72-82
sanitize_text(text, max_length) ==
    LET joined == join_split(text, 1)
    IN  IF text = <<>> THEN <<>>
        ELSE IF Len(joined) > max_length
             THEN SubSeq(joined, 1, max_length - 3) \o <<".", ".", ".">>
             ELSE joined

\* datetime.min and datetime.max: the instants a datetime can hold
datetime_min == -4
datetime_max == 6

\* the values handed to parse_date: None, a value that is no string (a
\* struct_time), the empty string, a date-time without offset, a date-time
\* with a UTC offset (counted in instants), digits beyond any year, and text
\* dateutil finds no date in
NoneValue == [kind |-> "none", wall |-> 0, offset |-> 0]
NotAString == [kind |-> "nonstring", wall |-> 0, offset |-> 0]
EmptyString == [kind |-> "empty", wall |-> 0, offset |-> 0]
Naive(wall) == [kind |-> "naive", wall |-> wall, offset |-> 0]
WithOffset(wall, offset) == [kind |-> "offset", wall |-> wall, offset |-> offset]
HugeNumber == [kind |-> "huge", wall |-> 0, offset |-> 0]
Unparsable == [kind |-> "unparsable", wall |-> 0, offset |-> 0]

\* how a call ends: with a value or with an exception
Returns(value) == [raised |-> "no", value |-> value]
Raises(exception) == [raised |-> exception, value |-> NaT]

\* dateutil's parser.parse: ParserError (a ValueError) for text without a
\* date, OverflowError for a number no C integer holds, else the wall-clock
\* value and the offset found in the string
parser_parse(date_str) ==
    CASE date_str.kind = "unparsable" -> Raises("ParserError")
      [] date_str.kind = "huge" -> Raises("OverflowError")
      [] OTHER -> Returns([wall |-> date_str.wall,
                           tzinfo |-> date_str.kind = "offset",
                           utcoffset |-> date_str.offset])

\* datetime.astimezone(timezone.utc): OverflowError when the UTC value is
\* outside datetime.min .. datetime.max
astimezone_utc(parsed) ==
    IF parsed.wall - parsed.utcoffset \in datetime_min..datetime_max
    THEN Returns(parsed.wall - parsed.utcoffset)
    ELSE Raises("OverflowError")

\* lines 89-108; the handler of line 106 catches ValueError, TypeError and
\* ParserError, and nothing else
parse_date(date_str, now) ==
    IF date_str.kind \in {"none", "nonstring", "empty"} THEN Returns(now)
    ELSE LET parsed == parser_parse(date_str)
             body == IF parsed.raised # "no" THEN parsed
                     ELSE IF parsed.value.tzinfo THEN astimezone_utc(parsed.value)
                     ELSE Returns(parsed.value.wall)
         IN  IF body.raised \in {"ValueError", "TypeError", "ParserError"}
             THEN Returns(now)
             ELSE body

\* the helpers as called, one call after another: util holds the call and
\* the one before it
Called(fn, arg, out) ==
    [fn |-> fn, arg |-> arg, out |-> out,
     prev |-> [fn |-> util.fn, arg |-> util.arg, out |-> util.out]]
NoCall == [fn |-> "none", arg |-> [none |-> TRUE], out |-> [none |-> TRUE],
           prev |-> [fn |-> "none", arg |-> [none |-> TRUE],
                     out |-> [none |-> TRUE]]]

call_generate_article_id(title, link) ==
    /\ util' = Called("generate_article_id", [title |-> title, link |-> link],
                      [id |-> generate_article_id(title, link)])
    /\ UNCHANGED <<storeVars, fetchVars, schedVars, lockVars, pipeVars, apiVars,
                   gatherVars>>

call_categorize_article(title, description) ==
    /\ util' = Called("categorize_article",
                      [title |-> title, description |-> description],
                      [category |-> categorize_article(title, description)])
    /\ UNCHANGED <<storeVars, fetchVars, schedVars, lockVars, pipeVars, apiVars,
                   gatherVars>>

call_parse_date(date_str, now) ==
    /\ util' = Called("parse_date", [date_str |-> date_str, now |-> now],
                      parse_date(date_str, now))
    /\ UNCHANGED <<storeVars, fetchVars, schedVars, lockVars, pipeVars, apiVars,
                   gatherVars>>

\* titles and links of feed entries; a link starts with its scheme ("h")
IdTitles == {<<"a">>, <<"a", "h", "b", "/">>, <<"b">>}
IdLinks == {<<"h", "c">>, <<"h", "b", "/", "h", "c">>, <<"h", "b">>}

\* titles and descriptions handed to categorize_article
CategoryTitles ==
    {<<>>, <<"c", "v", "e">>, <<"A", "p", "t">>, <<"d", "a", "t", "a">>,
     <<"a", " ", "p", "o", "c">>, <<"b">>}
CategoryDescriptions ==
    {<<>>, <<"b", "r", "e", "a", "c", "h">>, <<"a", "p", "t", " ", "c", "v", "e">>,
     <<"v", "u", "l", "n">>,
     <<"z", "e", "r", "o", "-", "d", "a", "y", " ", "p", "o", "c">>, <<"a">>}

\* the date strings of feed entries
DateInputs ==
    {NoneValue, NotAString, EmptyString, Naive(0), Naive(2), WithOffset(2, 1),
     WithOffset(2, -1), WithOffset(datetime_min, 1), WithOffset(datetime_max, -1),
     HugeNumber, Unparsable}

(***************************************************************************)
(* FeedScraper.scrape_all_feeds                                            *)
(*                                                                         *)
(* A day holds two instants: day d runs from 2d-1 (00:00:00) to 2d         *)
(* (23:59:59).  The results of the concurrent fetch_feed calls are the     *)
(* input: a parsed feed, or None for a feed whose attempts all failed.     *)
(***************************************************************************)
DayOf(instant) == (instant + 1) \div 2
DayStart(day) == 2 * day - 1
DayEnd(day) == 2 * day

\* entries of a parsed feed; an entry without has_date carries no date, or
\* one that dateutil cannot parse
Entry(title, link, has_date, published, summary) ==
    [title |-> title, link |-> link, has_date |-> has_date, published |-> published,
     summary |-> summary]
eToday     == Entry(<<"c", "v", "e">>, <<"x">>, TRUE, 2, <<"a">>)
eYesterday == Entry(<<"a", " ", " ", "p", "o", "c">>, <<"y">>, TRUE, 0, <<" ">>)
eOld       == Entry(<<"a">>, <<"z">>, TRUE, -2, <<"b">>)
eFuture    == Entry(<<"b">>, <<"w">>, TRUE, 3, <<"a", "p", "t", " ", "c", "v", "e">>)
eNoLink    == Entry(<<"a">>, <<>>, TRUE, 2, <<"b">>)
eNoDate    == Entry(<<"b">>, <<"v">>, FALSE, 0, <<>>)

\* what fetch_feed returned for one feed URL
Feed(title, entries) == [fetched |-> TRUE, title |-> title, entries |-> entries]
NoFeed == [fetched |-> FALSE, title |-> <<>>, entries |-> <<>>]
FeedResults ==
    {NoFeed, Feed(<<"N">>, <<eToday, eYesterday>>), Feed(<<"N">>, <<eFuture>>),
     Feed(<<"k">>, <<eNoLink, eNoDate>>), Feed(<<"k">>, <<eYesterday, eOld, eToday>>)}

\* the instants at which a run starts (datetime.now of line 117)
Clock == {1, 2}

\* parse_entry returns None
NoArticle == [id |-> <<>>, title |-> <<>>, description |-> <<>>, source |-> <<>>,
              category |-> "other", published |-> NaT]

\* FeedScraper.parse_entry
parse_entry(entry, source_name, now) ==
    LET title == sanitize_text(entry.title, title_max_length)
        description == sanitize_text(entry.summary, description_max_length)
    IN  IF entry.link = <<>> THEN NoArticle
        ELSE [id |-> generate_article_id(title, entry.link),
              title |-> title,
              description |-> description,
              source |-> source_name,
              category |-> categorize_article(title, description),
              published |-> IF entry.has_date THEN entry.published ELSE now]

\* lines 118-119
yesterday_start(now) == DayStart(DayOf(now)) - 2

\* lines 137-151: the articles kept from one fetched feed
kept_from(feed, now) ==
    LET entries == head(feed.entries, EntryLimit)
        parsed == [i \in DOMAIN entries |-> parse_entry(entries[i], feed.title, now)]
    IN  SelectSeq(parsed, LAMBDA article :
            article # NoArticle /\ article.published >= yesterday_start(now))

\* lines 130-158: all_articles, feed after feed
RECURSIVE all_articles(_, _)
all_articles(feeds, now) ==
    IF feeds = <<>> THEN <<>>
    ELSE (IF feeds[1].fetched THEN kept_from(feeds[1], now) ELSE <<>>)
             \o all_articles(Tail(feeds), now)

\* what one call of scrape_all_feeds saw and returned: the fetch results, the
\* clock, the article list and the ScrapeStats of lines 162-170; n numbers
\* the scrape_job execution that made the call and before is the file then
PipeRun(n, before, feeds, now) ==
    LET articles == all_articles(feeds, now)
    IN  [run |-> n, before |-> before, feeds |-> feeds, now |-> now,
         articles |-> articles,
         total_feeds |-> Len(feeds),
         successful_feeds |-> Cardinality({i \in DOMAIN feeds : feeds[i].fetched}),
         failed_feeds |-> Cardinality({i \in DOMAIN feeds : ~feeds[i].fetched}),
         new_articles |-> Len(articles)]
NoPipe == PipeRun(0, <<>>, <<>>, 1)

\* line 30 of scrape_job, with the pipeline run it stands for
scrape_all_feeds(t, feeds, now) ==
    /\ pc[t] = "scrape"
    /\ pipe' = PipeRun(run[t].stats.run, csv, feeds, now)
    /\ run' = [run EXCEPT ![t].articles = pipe'.articles,
                          ![t].stats.new_articles = pipe'.new_articles]
    /\ pc' = [pc EXCEPT ![t] = "insert"]
    /\ UNCHANGED <<is_running, job_added, last_stats, last_scrape, runs, returned,
                   stopping, storeVars, fetchVars, lockVars, apiVars, utilVars,
                   gatherVars>>

(***************************************************************************)
(* FeedScraper.scrape_all_feeds: the concurrent fetches                    *)
(*                                                                         *)
(* Line 126 makes one fetch_feed coroutine per feed and line 127 hands     *)
(* them all to asyncio.gather, which schedules every one of them as a task *)
(* and resumes scrape_all_feeds when the last has returned.  The tasks     *)
(* take turns on the event loop at their awaits: the request of an attempt *)
(* and the sleep between two attempts.                                     *)
(***************************************************************************)
Task(tpc, n, slept, res) == [pc |-> tpc, attempt |-> n, sleeps |-> slept, result |-> res]
NoTask == Task("none", 0, 0, "pending")

\* lines 126-127: the tasks of all feeds are created and scheduled
gather ==
    /\ gpc \in {"idle", "returned"}
    /\ gpc' = "gathering"
    /\ tasks' = [f \in 1..NumFeeds |-> Task("request", 0, 0, "pending")]
    /\ UNCHANGED <<storeVars, fetchVars, schedVars, lockVars, pipeVars, apiVars,
                   utilVars>>

\* fetch_feed of feed f, were a failed last attempt to start the loop afresh
task_attempt_again(f, o) ==
    /\ gpc = "gathering"
    /\ tasks[f].pc = "request"
    /\ tasks' = [tasks EXCEPT ![f] =
                    IF accepted(o)
                    THEN Task("done", @.attempt, @.sleeps,
                              IF o.bozo THEN "bozo feed" ELSE "feed")
                    ELSE IF @.attempt < max_retries - 1
                         THEN Task("sleep", @.attempt, @.sleeps, "pending")
                         ELSE Task("request", 0, 0, "pending")]
    /\ UNCHANGED <<gpc, storeVars, fetchVars, schedVars, lockVars, pipeVars, apiVars,
                   utilVars>>

\* lines 31-57 in the task of feed f: one attempt and what it ends with
task_attempt(f, o) ==
    /\ gpc = "gathering"
    /\ tasks[f].pc = "request"
    /\ tasks' = [tasks EXCEPT ![f] =
                    IF accepted(o)
                    THEN Task("done", @.attempt, @.sleeps,
                              IF o.bozo THEN "bozo feed" ELSE "feed")
                    ELSE IF @.attempt < max_retries - 1
                         THEN Task("sleep", @.attempt, @.sleeps, "pending")
                         ELSE Task("done", @.attempt, @.sleeps, "None")]
    /\ UNCHANGED <<gpc, storeVars, fetchVars, schedVars, lockVars, pipeVars, apiVars,
                   utilVars>>

\* line 58 in the task of feed f: the delay ends and the next attempt starts
task_sleep(f) ==
    /\ gpc = "gathering"
    /\ tasks[f].pc = "sleep"
    /\ tasks' = [tasks EXCEPT ![f] = Task("request", @.attempt + 1, @.sleeps + 1,
                                          "pending")]
    /\ UNCHANGED <<gpc, storeVars, fetchVars, schedVars, lockVars, pipeVars, apiVars,
                   utilVars>>

\* line 127 returns when every task has returned; lines 130-177 then process
\* the feeds and return (articles, stats)
gathered ==
    /\ gpc = "gathering"
    /\ \A f \in 1..NumFeeds : tasks[f].pc = "done"
    /\ gpc' = "returned"
    /\ UNCHANGED <<tasks, storeVars, fetchVars, schedVars, lockVars, pipeVars, apiVars,
                   utilVars>>

(***************************************************************************)
(* main.py: the HTTP endpoints                                             *)
(*                                                                         *)
(* The handlers are coroutines without an await of their own, so the       *)
(* event loop ("loop") runs one request to its response before it takes    *)
(* the next.  api holds the last request and the response: the status, the *)
(* calls the request made on the store and the scheduler, and whether the  *)
(* handler's body was entered.                                             *)
(***************************************************************************)
\* the X-API-Key header of a request: absent, or one of two keys
Keys == {"none", "wrong", "secret"}
\* settings.api_key
api_key == "secret"

\* verify_api_key (lines 32-42): TRUE when the request may pass
verify_api_key(key) ==
    ~api_key_enabled \/ (key # "none" /\ key = api_key)

CategoryEnum == {"vulnerability", "threat", "breach", "advisory", "news", "malware",
                 "exploit", "other"}

\* the start_date / end_date query strings: no parameter, the empty string, a
\* date (YYYY-MM-DD), a date-time (YYYY-MM-DDTHH:MM:SS), anything else
Absent == [kind |-> "absent", value |-> 0]
Empty == [kind |-> "empty", value |-> 0]
Date(day) == [kind |-> "date", value |-> day]
DateTime(instant) == [kind |-> "datetime", value |-> instant]
Garbage == [kind |-> "garbage", value |-> 0]
DateStrings == {Absent, Empty, Date(1), DateTime(2), Garbage}

\* datetime.fromisoformat: a date alone is read as that day's midnight;
\* ok = FALSE stands for ValueError
fromisoformat(s) ==
    CASE s.kind = "date" -> [ok |-> TRUE, value |-> DayStart(s.value)]
      [] s.kind = "datetime" -> [ok |-> TRUE, value |-> s.value]
      [] OTHER -> [ok |-> FALSE, value |-> NoDate]

\* f"{start_date}T00:00:00" and f"{end_date}T23:59:59": a date-time when the
\* string was a date
with_time(s, time) ==
    IF s.kind = "date"
    THEN DateTime(IF time = "00:00:00" THEN DayStart(s.value) ELSE DayEnd(s.value))
    ELSE Garbage

\* lines 127-139 and 141-153: None for a parameter that is absent or empty
\* ("if start_date:"), the instant parsed at the first or at the second
\* attempt, or ok = FALSE for the HTTPException of status 400
parse_with(s, time) ==
    IF s.kind \in {"absent", "empty"} THEN [ok |-> TRUE, value |-> NoDate]
    ELSE IF fromisoformat(s).ok THEN fromisoformat(s)
    ELSE fromisoformat(with_time(s, time))

\* a parser that lets anything through, as no filter
parse_unchecked(s) ==
    IF fromisoformat(s).ok THEN fromisoformat(s) ELSE [ok |-> TRUE, value |-> NoDate]

parsed_start_date(s) == parse_with(s, "00:00:00")
parsed_end_date(s) == parse_with(s, "23:59:59")

Answer(endpoint, key, arg, status, handler, calls, total, page) ==
    [endpoint |-> endpoint, key |-> key, status |-> status, handler |-> handler,
     calls |-> calls, arg |-> arg, total |-> total, page |-> page]

\* the requests made to GET /api/v1/vulnerabilities
VulnRequest(limit, category, start_date, end_date) ==
    [limit |-> limit, category |-> category, start_date |-> start_date,
     end_date |-> end_date]
VulnRequests ==
    {r \in [limit : {1, MaxLimit}, category : {NoCategory, "vulnerability", "bogus"},
            start_date : DateStrings, end_date : DateStrings] :
        /\ r.limit = 1 =>
              r.category = NoCategory /\ r.start_date = Absent /\ r.end_date = Absent
        /\ r.category # NoCategory =>
              r.start_date \in {Absent, Garbage} /\ r.end_date = Absent}
\* the ones also made without the configured key
KeylessRequests ==
    {VulnRequest(MaxLimit, NoCategory, Absent, Absent),
     VulnRequest(MaxLimit, NoCategory, Garbage, Absent),
     VulnRequest(MaxLimit, "bogus", Absent, Absent)}
NoArg == [none |-> TRUE]

\* the handlers run on the event loop, between two requests
between_requests == pc["loop"] = "idle"

\* GET / (lines 77-86)
root(key) ==
    /\ between_requests
    /\ api' = Answer("root", key, NoArg, 200, TRUE, <<>>, 0, <<>>)
    /\ UNCHANGED <<api_key_enabled, storeVars, fetchVars, schedVars, lockVars,
                   pipeVars, utilVars, gatherVars>>

\* GET /health (lines 89-100); get_stats does not raise
health_check(key) ==
    /\ between_requests
    /\ api' = Answer("health", key, NoArg, 200, TRUE, <<"get_stats">>,
                     total_articles(csv), <<>>)
    /\ UNCHANGED <<api_key_enabled, storeVars, fetchVars, schedVars, lockVars,
                   pipeVars, utilVars, gatherVars>>

\* GET /api/v1/vulnerabilities (lines 108-178).  The key is checked and the
\* category validated against CategoryEnum (status 422) before the handler
\* is entered; db.get_articles returns or raises.
get_vulnerabilities(key, r) ==
    LET from  == parsed_start_date(r.start_date)
        to    == parsed_end_date(r.end_date)
        q     == [NoQuery EXCEPT !.limit = r.limit, !.category = r.category,
                                 !.start_date = from.value, !.end_date = to.value]
        found == select_articles(csv, q)
    IN  /\ between_requests
        /\ \/ /\ ~verify_api_key(key)
              /\ api' = Answer("vulnerabilities", key, r, 401, FALSE, <<>>, 0, <<>>)
           \/ /\ verify_api_key(key)
              /\ r.category \notin CategoryEnum \cup {NoCategory}
              /\ api' = Answer("vulnerabilities", key, r, 422, FALSE, <<>>, 0, <<>>)
           \/ /\ verify_api_key(key)
              /\ r.category \in CategoryEnum \cup {NoCategory}
              /\ ~from.ok \/ ~to.ok
              /\ api' = Answer("vulnerabilities", key, r, 400, TRUE, <<>>, 0, <<>>)
           \/ /\ verify_api_key(key)
              /\ r.category \in CategoryEnum \cup {NoCategory}
              /\ from.ok /\ to.ok
              /\ \/ api' = Answer("vulnerabilities", key, r, 200, TRUE,
                                  <<"get_articles">>, found.total, found.page)
                 \/ api' = Answer("vulnerabilities", key, r, 500, TRUE,
                                  <<"get_articles">>, 0, <<>>)
        /\ UNCHANGED <<api_key_enabled, storeVars, fetchVars, schedVars, lockVars,
                       pipeVars, utilVars, gatherVars>>

\* the ids asked for
ArticleIds == {"i1", "i3", "i5", "zz"}
ByIdArg(article_id) == [article_id |-> article_id]

\* GET /api/v1/vulnerabilities/{article_id} (lines 186-211)
get_vulnerability_by_id(key, article_id) ==
    LET articles == select_articles(csv, [NoQuery EXCEPT !.limit = 1]).page
        hits == SelectSeq(articles, LAMBDA a : a.id = article_id)
    IN  /\ between_requests
        /\ \/ /\ ~verify_api_key(key)
              /\ api' = Answer("by_id", key, ByIdArg(article_id), 401, FALSE, <<>>, 0,
                               <<>>)
           \/ /\ verify_api_key(key)
              /\ \/ api' = Answer("by_id", key, ByIdArg(article_id),
                                  IF hits # <<>> THEN 200 ELSE 404, TRUE,
                                  <<"get_articles">>, 0, head(hits, 1))
                 \/ api' = Answer("by_id", key, ByIdArg(article_id), 500, TRUE,
                                  <<"get_articles">>, 0, <<>>)
        /\ UNCHANGED <<api_key_enabled, storeVars, fetchVars, schedVars, lockVars,
                       pipeVars, utilVars, gatherVars>>

\* GET /api/v1/sources (lines 214-225), GET /api/v1/categories (228-231) and
\* GET /api/v1/stats (234-252): the key, then the handler
get_listing(endpoint, key) ==
    /\ between_requests
    /\ api' = IF ~verify_api_key(key)
              THEN Answer(endpoint, key, NoArg, 401, FALSE, <<>>, 0, <<>>)
              ELSE Answer(endpoint, key, NoArg, 200, TRUE,
                          IF endpoint = "categories" THEN <<>> ELSE <<"get_stats">>,
                          0, <<>>)
    /\ UNCHANGED <<api_key_enabled, storeVars, fetchVars, schedVars, lockVars,
                   pipeVars, utilVars, gatherVars>>

get_sources(key) == get_listing("sources", key)
get_categories(key) == get_listing("categories", key)
get_statistics(key) == get_listing("stats", key)

\* POST /api/v1/scrape (lines 255-272): the key, then
\* task_scheduler.trigger_manual_scrape() on the event loop; the response is
\* made when scrape_job has returned
post_scrape(key) ==
    /\ between_requests
    /\ IF ~verify_api_key(key)
       THEN /\ api' = Answer("scrape", key, NoArg, 401, FALSE, <<>>, 0, <<>>)
            /\ UNCHANGED <<pc, run, runs>>
       ELSE /\ enter_scrape_job("loop", "manual")
            /\ api' = Answer("scrape", key, NoArg, 0, TRUE, <<"scrape">>, 0, <<>>)
    /\ UNCHANGED <<is_running, job_added, last_stats, last_scrape, returned,
                   stopping, api_key_enabled, storeVars, fetchVars, lockVars,
                   pipeVars, utilVars, gatherVars>>

(***************************************************************************)
(* Specifications                                                          *)
(***************************************************************************)
\* the objects as the module-level constructors leave them
Constructed ==
    /\ csv = <<>>
    /\ last = Observed("init", <<>>, <<>>, <<>>, 0, FALSE, NoQuery, <<>>, 0)
    /\ ingested = Fresh
    /\ attempt = 0
    /\ fpc = "request"
    /\ responses = <<>>
    /\ sleeps = 0
    /\ result = "pending"
    /\ is_running = FALSE
    /\ job_added = FALSE
    /\ last_stats = NoStats
    /\ last_scrape = 0
    /\ pc = [t \in Threads |-> "idle"]
    /\ run = [t \in Threads |-> NoRun]
    /\ runs = 0
    /\ returned = NoReturn
    /\ stopping = FALSE
    /\ lock = "free"
    /\ call_of = [t \in Threads |-> Idle]
    /\ done = [t \in Threads |-> NoOutcome]
    /\ pipe = NoPipe
    /\ api = NoRequest
    /\ util = NoCall
    /\ tasks = [f \in 1..NumFeeds |-> NoTask]
    /\ gpc = "idle"

\* api_key_enabled has the default of config.py line 33
Init == Constructed /\ api_key_enabled = TRUE

\* the store and its callers
Next ==
    \/ \E articles \in Batches : add_articles(articles)
    \/ \E q \in Queries : get_articles(q)
    \/ clear

Spec == Init /\ [][Next]_vars

\* the store and the callers that write it
WriteNext ==
    \/ \E articles \in Batches : add_articles(articles)
    \/ clear

WriteSpec == Init /\ [][WriteNext]_vars

\* the writers again, the batches now with an article whose text is one of
\* read_csv's markers of a missing value
KeepCatalogue == <<k1, k2, k4, k6, k7>>
KeepBatches ==
    UNION {{[i \in 1..n |-> KeepCatalogue[f[i]]] :
               f \in {g \in [1..n -> DOMAIN KeepCatalogue] :
                         \A i \in 1..n, j \in 1..n : i <= j => g[i] <= g[j]}} :
           n \in 0..MaxBatch}

KeepNext ==
    \/ \E articles \in KeepBatches : add_articles(articles)
    \/ clear

KeepSpec == Init /\ [][KeepNext]_vars

\* one feed URL fetched again and again
FetchNext ==
    \/ \E o \in Outcomes : fetch_attempt(o)
    \/ fetch_sleep
    \/ fetch_feed

FetchSpec == Init /\ [][FetchNext]_vars

\* the scheduler, its timer and the server's requests
SchedNext ==
    \/ \E b \in BOOLEAN : start(b)
    \/ tick
    \/ trigger_manual_scrape
    \/ \E t \in Threads : scrape_sync(t)
    \/ \E t \in Threads : insert(t)
    \/ \E t \in Threads : read_stats(t)
    \/ \E t \in Threads : record(t)
    \/ \E t \in Threads : except(t)
    \/ \E t \in Threads : return(t)
    \/ stop
    \/ stopped

SchedSpec == Init /\ [][SchedNext]_vars

\* the store and two threads inside its operations
LockNext ==
    \/ \E t \in Threads, name \in Operations, batch \in ThreadBatches :
          /\ name # "add_articles" => batch = <<>>
          /\ call(t, name, batch)
    \/ \E t \in Threads : acquire(t)
    \/ \E t \in Threads : read(t)
    \/ \E t \in Threads : write(t)

LockSpec == Init /\ [][LockNext]_vars

\* manual runs, each with the pipeline run computed from what the feeds gave
PipeNext ==
    \/ trigger_manual_scrape
    \/ \E feeds \in [1..NumFeeds -> FeedResults], now \in Clock :
          scrape_all_feeds("loop", feeds, now)
    \/ insert("loop")
    \/ read_stats("loop")
    \/ record("loop")
    \/ except("loop")
    \/ return("loop")

PipeSpec == Init /\ [][PipeNext]_vars

\* the helpers of utils.py, called on one input after another
UtilNext ==
    \/ \E title \in IdTitles, link \in IdLinks : call_generate_article_id(title, link)
    \/ \E title \in CategoryTitles, description \in CategoryDescriptions :
          call_categorize_article(title, description)
    \/ \E date_str \in DateInputs, now \in Clock : call_parse_date(date_str, now)

UtilSpec == Init /\ [][UtilNext]_vars

\* the pipeline's fetch phase, run after run
GatherNext ==
    \/ gather
    \/ \E f \in 1..NumFeeds, o \in Outcomes : task_attempt(f, o)
    \/ \E f \in 1..NumFeeds : task_sleep(f)
    \/ gathered

\* every attempt ends (response, error or the ClientTimeout of line 37), every
\* sleep ends, and the event loop resumes the coroutine that gather woke
GatherSpec ==
    /\ Init /\ [][GatherNext]_vars
    /\ \A f \in 1..NumFeeds : WF_vars(\E o \in Outcomes : task_attempt(f, o))
    /\ \A f \in 1..NumFeeds : WF_vars(task_sleep(f))
    /\ WF_vars(gathered)

\* the server: requests with and without the key, the key requirement on or
\* off (API_KEY_ENABLED in the environment)
ApiInit == Constructed /\ api_key_enabled \in BOOLEAN

ApiNext ==
    \/ \E key \in Keys : root(key)
    \/ \E key \in Keys : health_check(key)
    \/ \E key \in Keys, r \in VulnRequests :
          /\ key # api_key => r \in KeylessRequests
          /\ get_vulnerabilities(key, r)
    \/ \E key \in Keys, id \in ArticleIds :
          /\ key # api_key => id = "i1"
          /\ get_vulnerability_by_id(key, id)
    \/ \E key \in Keys : get_sources(key)
    \/ \E key \in Keys : get_categories(key)
    \/ \E key \in Keys : get_statistics(key)
    \/ \E key \in Keys : post_scrape(key)
    \/ scrape_sync("loop")
    \/ insert("loop")
    \/ read_stats("loop")
    \/ record("loop")
    \/ except("loop")
    \/ return("loop")

ApiSpec == ApiInit /\ [][ApiNext]_vars


(***************************************************************************)
(* Properties                                                              *)
(***************************************************************************)
Count(seq, x) == Cardinality({i \in DOMAIN seq : seq[i] = x})
Rows(seq) == {seq[i] : i \in DOMAIN seq}
Descending(seq) ==
    \A i \in DOMAIN seq, j \in DOMAIN seq : i <= j => seq[i].published >= seq[j].published

\* kept holds rows of all, and whatever of all it lacks is no newer than
\* anything it holds
KeepsNewest(all, kept) ==
    /\ \A r \in Rows(kept) : Count(kept, r) <= Count(all, r)
    /\ \A r \in Rows(all) : Count(kept, r) < Count(all, r) =>
          \A k \in Rows(kept) : r.published <= k.published

InRunBody(t) == pc[t] \in {"scrape", "insert", "stats", "record"}

\* C1: at every moment at most one execution of scrape_job's run body is
\* active, whichever of the timer, start's immediate run and
\* trigger_manual_scrape started it.
C1_SingleFlight == Cardinality({t \in Threads : InRunBody(t)}) <= 1

\* the case C1 singles out: no manual run beside a timer-driven run
C1_NoManualBesideTimer ==
    ~(InRunBody("timer") /\ InRunBody("loop") /\ run["loop"].kind = "manual")

\* C2: no two stored records have the same id.
C2_UniqueIds ==
    \A i \in DOMAIN csv, j \in DOMAIN csv : i # j => csv[i].id # csv[j].id

\* C3: add_articles called again with the same batch, right after the first
\* call, returns 0 and leaves the stored collection as it was.
C3_Idempotent ==
    (last.op = "add" /\ last.repeat) => (last.ret = 0 /\ csv = last.before)

\* C4 as claimed: when the existing records plus the batch's new records are
\* more than max_records, the store afterwards holds exactly max_records
\* records, the ones of that combined collection with the greatest published
\* values.
C4_TrimKeepsNewest ==
    (last.op = "add" /\ Len(last.combined) > max_records) =>
        (Len(csv) = max_records /\ KeepsNewest(last.combined, csv))

\* the rows of the combined collection whose published value can be parsed
Parseable(df) == SelectSeq(df, LAMBDA r : r.published <= TimestampMax)

\* C4 as amended: when the existing records plus the batch's new records,
\* less the ones whose published value cannot be parsed, are more than
\* max_records, the store afterwards holds exactly max_records records, the
\* ones of those with the greatest published values; every evicted record is
\* no newer than any retained one.
C4_TrimKeepsNewestParseable ==
    (last.op = "add" /\ Len(Parseable(last.combined)) > max_records) =>
        (Len(csv) = max_records /\ KeepsNewest(Parseable(last.combined), csv))

\* C4's case: an insert whose batch held a record with an unparsable date
\* went over max_records, stored a new record and evicted a stored one that
\* was older than every record kept
C4_Trimmed ==
    /\ last.op = "add"
    /\ Len(Parseable(last.combined)) > max_records
    /\ Len(last.combined) > Len(Parseable(last.combined))
    /\ \E r \in Rows(csv) : Count(last.before, r) = 0
    /\ \E r \in Rows(last.before) :
          Count(csv, r) = 0 /\ \A k \in Rows(csv) : r.published < k.published

\* C5: add_articles returns the number of batch articles whose id was not
\* stored before the call and is stored after it.
C5_ReturnsAdded ==
    last.op = "add" =>
        last.ret = Cardinality({i \in DOMAIN last.batch :
                                   /\ last.batch[i].id \notin ids_of(last.before)
                                   /\ last.batch[i].id \in ids_of(csv)})

NoFilter(q) ==
    /\ q.source = <<>> /\ q.category = NoCategory /\ q.search = <<>>
    /\ q.start_date = NoDate /\ q.end_date = NoDate

\* C6: N articles with ids of their own (N <= max_records), inserted into an
\* empty store, all come back from get_articles(limit=N, offset=0) without a
\* filter, newest first, with total = N.
C6_AllReturned ==
    LET N == Cardinality(ingested.ids)
    IN  (/\ last.op = "get" /\ ingested.clean /\ N >= 1
         /\ NoFilter(last.q) /\ last.q.offset = 0 /\ last.q.limit = N) =>
            /\ last.total = N
            /\ Len(last.page) = N
            /\ ids_of(last.page) = ingested.ids
            /\ Descending(last.page)

\* text occurs in cell as it stands, character for character
Substring(cell, text) ==
    \E i \in 0..(Len(cell) - Len(text)) : \A k \in 1..Len(text) : cell[i + k] = text[k]

\* a stored record passes every filter the query supplies
Satisfies(r, q) ==
    /\ q.source # <<>> => Lower(r.source) = Lower(q.source)
    /\ q.category # NoCategory => r.category = q.category
    /\ q.start_date # NoDate => r.published >= q.start_date
    /\ q.end_date # NoDate => r.published <= q.end_date
    /\ q.search # <<>> => \/ Substring(Lower(r.title), Lower(q.search))
                          \/ Substring(Lower(r.description), Lower(q.search))

\* C7: a stored record is counted in total, and can be on the page, exactly
\* when it passes all supplied filters at once, search being a
\* case-insensitive substring test.
C7_Conjunctive ==
    last.op = "get" =>
        /\ last.total = Cardinality({i \in DOMAIN csv : Satisfies(csv[i], last.q)})
        /\ \A r \in Rows(last.page) : Satisfies(r, last.q)

\* C8: for limit >= 1 the page is the rows offset .. offset+limit-1 of the
\* filtered list, total is the length of that list, and the page holds
\* min(limit, max(total - offset, 0)) rows.
C8_Pagination ==
    (last.op = "get" /\ last.q.limit >= 1) =>
        LET filtered == to_csv(filter_rows(read_csv(csv), last.q))
        IN  /\ last.total = Len(filtered)
            /\ Len(last.page) = Min(last.q.limit, Max(last.total - last.q.offset, 0))
            /\ last.page = SubSeq(filtered, last.q.offset + 1,
                                  Min(last.q.offset + last.q.limit, Len(filtered)))

\* an attempt the fetcher is to accept: a response with a 2xx status
Successful(o) == o.kind = "response" /\ o.status >= 200 /\ o.status <= 299
\* an attempt the fetcher is to retry: timeout, transport error, other status
Failed(o) == ~Successful(o)

\* C9: fetch_feed makes at most max_retries attempts, sleeps after every
\* failed attempt but the last, stops at the first successful attempt and
\* returns that feed, and returns None exactly when all max_retries attempts
\* failed.
C9_RetryLoop ==
    /\ Len(responses) <= max_retries
    /\ sleeps = Cardinality({i \in DOMAIN responses :
                                /\ Failed(responses[i]) /\ i < max_retries
                                /\ (i < Len(responses) \/ fpc = "request")})
    /\ \A i \in DOMAIN responses :
          Successful(responses[i]) =>
              i = Len(responses) /\ fpc = "done" /\ result \in {"feed", "bozo feed"}
    /\ fpc = "done" =>
          (result = "None" <=>
              /\ Len(responses) = max_retries
              /\ \A i \in DOMAIN responses : Failed(responses[i]))

\* C10: a response with any status from 200 to 299 ends the retry loop: the
\* parsed feed is returned and no further attempt follows, well-formed body
\* or not.
C10_Any2xxEndsLoop ==
    \A i \in DOMAIN responses :
        (responses[i].kind = "response" /\ responses[i].status \in 200..299) =>
            /\ i = Len(responses)
            /\ fpc = "done"
            /\ result = IF responses[i].bozo THEN "bozo feed" ELSE "feed"

\* the spec's recency window: from the start of yesterday to the end of today
InWindow(instant, now) ==
    instant >= DayStart(DayOf(now) - 1) /\ instant <= DayEnd(DayOf(now))

\* the articles a run is to accept: of every fetched feed's first EntryLimit
\* entries, the ones with a link and a published instant inside the window
RECURSIVE in_window_articles(_, _)
in_window_articles(feeds, now) ==
    IF feeds = <<>> THEN <<>>
    ELSE LET entries == head(feeds[1].entries, EntryLimit)
             parsed == [i \in DOMAIN entries |->
                           parse_entry(entries[i], feeds[1].title, now)]
         IN  SelectSeq(parsed, LAMBDA a : a # NoArticle /\ InWindow(a.published, now))
                 \o in_window_articles(Tail(feeds), now)

IdCount(seq, id) == Cardinality({i \in DOMAIN seq : seq[i].id = id})

\* C11: a run started on an empty store, whose feeds were each fetched or
\* failed on all retries, completes with total_feeds = number of feeds,
\* successful_feeds = number fetched, failed_feeds = number failed,
\* new_articles = number of in-window entries of the fetched feeds, and the
\* store then holds exactly those articles (no more of them than max_records,
\* and no store failure during the run).
C11_RunStats ==
    LET expected == in_window_articles(pipe.feeds, pipe.now)
    IN  (/\ pc["loop"] = "return" /\ pipe.run # 0 /\ pipe.run = run["loop"].stats.run
         /\ pipe.before = <<>> /\ ~run["loop"].store_failed
         /\ Len(expected) <= max_records) =>
            /\ last_stats.run = pipe.run
            /\ pipe.total_feeds = Len(pipe.feeds)
            /\ pipe.successful_feeds =
                   Cardinality({i \in DOMAIN pipe.feeds : pipe.feeds[i].fetched})
            /\ pipe.failed_feeds =
                   Cardinality({i \in DOMAIN pipe.feeds : ~pipe.feeds[i].fetched})
            /\ pipe.successful_feeds + pipe.failed_feeds = pipe.total_feeds
            /\ last_stats.new_articles = Len(expected)
            /\ \A id \in ids_of(expected) \cup ids_of(csv) :
                  IdCount(csv, id) = IdCount(expected, id)

\* C12: every article scrape_all_feeds returns was published inside the
\* window from the start of yesterday to the end of today; older entries and
\* entries dated in the future beyond it are dropped.
C12_InWindow ==
    \A i \in DOMAIN pipe.articles : InWindow(pipe.articles[i].published, pipe.now)

\* C13: trigger_manual_scrape returns the ScrapeStats of the run that this
\* call executed: never None, never those of another run.
C13_ReturnsOwnStats ==
    returned.call # 0 => returned.stats.run = returned.call

\* C14: a store operation whose access to the file failed ends by raising to
\* its caller, and a run in which the store failed is reported to the run's
\* caller.
C14_FailuresRaised ==
    /\ \A t \in Threads : done[t].io_failed => done[t].raised
    /\ returned.store_failed => returned.raised

\* the scheduler's half of C14 alone
C14_RunFailureReported == returned.store_failed => returned.raised

\* C15: stop returns (and clears is_running) only when no run is in
\* progress, whichever way the run was started.
C15_StopWaits ==
    [][(stopping /\ ~stopping') => \A t \in Threads : ~InRunBody(t)]_vars

InStore(t) == call_of[t].pc \in {"read", "write"}

\* C16: at most one thread is between its entry into the lock and its final
\* write or return; what an operation writes is what the operation, run on
\* its own, makes of the file as it stands (no write by another thread falls
\* between its read and its write); and the lock is held only by a thread
\* inside an operation, whose next step is always possible.
C16_Serialized ==
    /\ Cardinality({t \in Threads : InStore(t)}) <= 1
    /\ \A t \in Threads : InStore(t) => lock = t
    /\ lock # "free" => InStore(lock)
    /\ \A t \in Threads :
          (call_of[t].name = "add_articles" /\ call_of[t].pc = "write") =>
              call_of[t].seen = csv
    /\ \A t \in Threads : done[t].atomic

\* C16's case: two threads added disjoint batches, one of them called while
\* the other was inside add_articles, and the file holds both batches
C16_ConcurrentAdds ==
    \E t \in Threads, u \in Threads :
        /\ t # u
        /\ done[t].name = "add_articles" /\ done[u].name = "add_articles"
        /\ done[t].batch # <<>> /\ done[u].batch # <<>>
        /\ ids_of(done[t].batch) \cap ids_of(done[u].batch) = {}
        /\ done[t].overlap
        /\ ~done[t].raised /\ ~done[u].raised
        /\ ids_of(done[t].batch) \cup ids_of(done[u].batch) \subseteq ids_of(csv)

\* C17: a date-only start_date is widened to that day's 00:00:00 and a
\* date-only end_date to that day's 23:59:59: a query with start_date =
\* end_date = D, given as dates, counts every stored article published at
\* any time during day D.
C17_DateWidened ==
    (/\ api.endpoint = "vulnerabilities" /\ api.status = 200
     /\ api.arg.start_date.kind = "date" /\ api.arg.end_date = api.arg.start_date
     /\ api.arg.category = NoCategory) =>
        api.total = Cardinality({i \in DOMAIN csv :
                                    DayOf(csv[i].published) = api.arg.start_date.value})

\* a query string that is supplied and is neither a date nor a date-time
InvalidDate(s) == s.kind \in {"empty", "garbage"}
\* the same, the empty string apart
MalformedDate(s) == s.kind = "garbage"

\* C18 as claimed: a query whose start_date or end_date is not a valid date
\* or date-time string, or whose category is not in the enumeration, is
\* answered with a 4xx status and db.get_articles is not invoked.
C18_InvalidRejected ==
    (/\ api.endpoint = "vulnerabilities"
     /\ \/ InvalidDate(api.arg.start_date) \/ InvalidDate(api.arg.end_date)
        \/ api.arg.category \notin CategoryEnum \cup {NoCategory}) =>
        /\ api.status \in 400..499
        /\ api.calls = <<>>

\* C18 as amended: a query whose start_date or end_date is a non-empty
\* string that is neither a date nor a date-time, or whose category is not in
\* the enumeration, is answered with a 4xx status and db.get_articles is not
\* invoked; an empty start_date or end_date is taken as absent.
C18_MalformedRejected ==
    (/\ api.endpoint = "vulnerabilities"
     /\ \/ MalformedDate(api.arg.start_date) \/ MalformedDate(api.arg.end_date)
        \/ api.arg.category \notin CategoryEnum \cup {NoCategory}) =>
        /\ api.status \in 400..499
        /\ api.calls = <<>>

\* C18's case: a request with the right key, a valid start_date and a
\* malformed end_date was answered 400 by the handler, the store not empty
C18_Rejected ==
    /\ api.endpoint = "vulnerabilities" /\ api.key = api_key
    /\ api.arg.start_date.kind = "date" /\ api.arg.end_date.kind = "garbage"
    /\ api.status = 400 /\ api.handler
    /\ csv # <<>>

\* C19: with the key requirement enabled, every endpoint but /health answers
\* a request without the configured key with 401, reads nothing from the
\* store and starts no scrape.
C19_KeyRequired ==
    (/\ api_key_enabled /\ api.endpoint \notin {"none", "health"}
     /\ api.key # api_key) =>
        api.status = 401 /\ api.calls = <<>> /\ ~api.handler

\* C20: GET /api/v1/vulnerabilities/{article_id} returns the stored article
\* with that id, wherever it is in the store, and answers 404 exactly when no
\* stored article has that id.
C20_FoundById ==
    (api.endpoint = "by_id" /\ api.status \in {200, 404}) =>
        IF api.arg.article_id \in ids_of(csv)
        THEN api.status = 200 /\ Len(api.page) = 1
             /\ api.page[1].id = api.arg.article_id
        ELSE api.status = 404

\* C21: generate_article_id gives the same id for the same (title, link)
\* pair, and different ids for two different pairs, the digest taken to have
\* no collisions: two different feed entries never share an id.
C21_DistinctIds ==
    (util.fn = "generate_article_id" /\ util.prev.fn = "generate_article_id") =>
        /\ util.arg = util.prev.arg => util.out.id = util.prev.out.id
        /\ util.arg # util.prev.arg => util.out.id # util.prev.out.id

\* the number of a category's keywords that occur in the lower-cased text
KeywordScore(c, text) ==
    Cardinality({k \in DOMAIN category_keywords[c].keywords :
                    Substring(Lower(text), category_keywords[c].keywords[k])})

\* C22: categorize_article returns the category with the most keywords
\* occurring in the lower-cased text, of several such the one defined first
\* in the table (vulnerability, threat, breach, advisory, malware, exploit),
\* and other exactly when no keyword of any category occurs.
C22_Categorized ==
    util.fn = "categorize_article" =>
        LET text == util.arg.title \o <<" ">> \o util.arg.description
            best == {c \in DOMAIN category_keywords :
                        /\ KeywordScore(c, text) > 0
                        /\ \A d \in DOMAIN category_keywords :
                              KeywordScore(d, text) <= KeywordScore(c, text)}
        IN  /\ [c \in DOMAIN category_keywords |-> category_keywords[c].category] =
                   <<"vulnerability", "threat", "breach", "advisory", "malware",
                     "exploit">>
            /\ util.out.category = "other" <=> best = {}
            /\ \A c \in best :
                  (\A d \in best : c <= d) =>
                      util.out.category = category_keywords[c].category

\* C22's case: the text "Apt vuln" holds one keyword of threat and, after
\* it, one of vulnerability; the category defined first is returned
C22_TieBroken ==
    /\ util.fn = "categorize_article"
    /\ util.arg.title = <<"A", "p", "t">>
    /\ util.arg.description = <<"v", "u", "l", "n">>
    /\ KeywordScore(1, util.arg.title \o <<" ">> \o util.arg.description) = 1
    /\ KeywordScore(2, util.arg.title \o <<" ">> \o util.arg.description) = 1
    /\ util.out.category = "vulnerability"

\* C23: parse_date never raises: it returns the input converted to UTC when
\* the input carries an offset, the wall-clock value when it carries none,
\* and the current UTC instant when the input is empty, no string, or cannot
\* be parsed or converted.
C23_AlwaysAnInstant ==
    util.fn = "parse_date" =>
        LET date_str == util.arg.date_str
            utc == date_str.wall - date_str.offset
        IN  /\ util.out.raised = "no"
            /\ util.out.value =
                   CASE date_str.kind = "offset" /\ utc \in datetime_min..datetime_max
                          -> utc
                     [] date_str.kind = "naive" -> date_str.wall
                     [] OTHER -> util.arg.now

\* C24: across add_articles and clear calls a stored record keeps all its
\* field values for as long as it is stored, and leaves the store only
\* through clear, or through a trim to max_records in which it is no newer
\* than any record kept.
C24_Immutable ==
    [][\A r \in Rows(csv) :
          Count(csv', r) < Count(csv, r) =>
              \/ last'.op = "clear"
              \/ /\ last'.op = "add"
                 /\ Len(csv') = max_records
                 /\ \A k \in Rows(csv') : r.published <= k.published]_vars

\* attempts the task of feed f has made
AttemptsMade(f) ==
    IF tasks[f].pc = "none" THEN 0
    ELSE tasks[f].attempt + (IF tasks[f].pc = "request" THEN 0 ELSE 1)

\* C25: every run completes: each feed's fetch makes at most max_retries
\* attempts and max_retries - 1 delays, the fetches of all feeds are issued
\* before any result is awaited, a feed's next attempt never waits for
\* another feed, and scrape_all_feeds returns once every attempt has ended.
C25_RunCompletes ==
    /\ [](\A f \in 1..NumFeeds :
             /\ AttemptsMade(f) <= max_retries
             /\ tasks[f].sleeps <= max_retries - 1
             /\ tasks[f].sleeps <= AttemptsMade(f)
             /\ tasks[f].result = "None" => AttemptsMade(f) = max_retries)
    /\ [](gpc = "gathering" =>
             \A f \in 1..NumFeeds :
                 /\ tasks[f].pc # "none"
                 /\ tasks[f].pc = "request" => ENABLED task_attempt(f, Timeout)
                 /\ tasks[f].pc = "sleep" => ENABLED task_sleep(f))
    /\ \A f \in 1..NumFeeds : (gpc = "gathering" ~> tasks[f].pc = "done")
    /\ (gpc = "gathering" ~> gpc = "returned")

\* C25's case: the run returned, one feed fetched at its first attempt and
\* another given up after max_retries attempts and max_retries - 1 delays
C25_SlowFeedReturned ==
    /\ gpc = "returned"
    /\ \E f \in 1..NumFeeds, g \in 1..NumFeeds :
          /\ tasks[f].result = "feed" /\ tasks[f].attempt = 0
          /\ tasks[g].result = "None" /\ tasks[g].sleeps = max_retries - 1

\* C26: after clear returns the persisted store is empty: get_stats reports
\* total_articles = 0, no sources, no categories and no oldest or newest
\* value; get_articles returns ([], 0) on that file whatever its filter;
\* and an add_articles that follows, of articles stored before the clear,
\* returns their count and stores them again.
C26_ClearEmpties ==
    [][/\ last'.op = "clear" =>
              /\ csv' = <<>>
              /\ get_stats(csv') =
                     [total_articles |-> 0, sources |-> <<>>, categories |-> <<>>,
                      oldest_article |-> <<>>, newest_article |-> <<>>]
              /\ \A q \in Queries :
                    select_articles(csv', q) = [page |-> <<>>, total |-> 0]
       /\ (/\ last.op = "clear" /\ last'.op = "add"
           /\ Rows(last'.batch) \subseteq Rows(last.before)
           /\ Cardinality(Rows(last'.batch)) = Len(last'.batch)) =>
              /\ last'.ret = Len(last'.batch)
              /\ \A r \in Rows(last'.batch) : Count(csv', r) = 1
              /\ Len(csv') = Len(last'.batch)]_vars

\* C26's case: clear has returned on a store that was full
C26_Cleared ==
    /\ last.op = "clear"
    /\ Len(last.before) = max_records
    /\ csv = <<>>

\* C28: in every state reached from the empty store by add_articles and
\* clear, the persisted collection is ordered by published, newest first,
\* and holds at most max_records records; get_articles, which does not sort,
\* returns every page in that order.
C28_SortedAndBounded ==
    /\ Descending(csv)
    /\ Len(csv) <= max_records
    /\ \A q \in Queries : Descending(select_articles(csv, q).page)

\* C28's case: an insert went over max_records, and the row it appended is
\* stored first, ahead of an older row that was stored before it
C28_SortedAfterTrim ==
    /\ last.op = "add"
    /\ Len(last.combined) > max_records
    /\ Len(csv) = max_records
    /\ csv[1].id \notin ids_of(last.before)
    /\ csv[Len(csv)].id \in ids_of(last.before)
    /\ csv[1].published > csv[Len(csv)].published

\* the flag, the job and the runs of start and of the timer: start while
\* running and stop while stopped change nothing; start from stopped
\* registers the job and, with run_immediately, starts the one immediate
\* run; a timer run starts only with the job registered and the flag set,
\* and a tick that falls due during a timer run starts nothing
FlagAndJob ==
    /\ [](/\ job_added => is_running
          /\ stopping => is_running
          /\ pc["timer"] # "idle" => is_running)
    /\ [][/\ (is_running /\ is_running') => (job_added' => job_added)
          /\ (~is_running /\ ~is_running') =>
                 UNCHANGED <<job_added, stopping, pc, run, runs>>
                     \/ run'["loop"].kind = "manual" \/ pc["loop"] # "idle"
          /\ (~is_running /\ is_running') =>
                 /\ job_added'
                 /\ pc'["timer"] = pc["timer"]
                 /\ \/ UNCHANGED <<pc, run, runs>>
                    \/ /\ run'["loop"].kind = "immediate"
                       /\ pc'["loop"] = "scrape"
                       /\ runs' = runs + 1
          /\ (run'["loop"].kind = "immediate" /\ run["loop"].kind # "immediate") =>
                 ~is_running /\ is_running'
          /\ (pc["timer"] = "idle" /\ pc'["timer"] # "idle") =>
                 /\ job_added /\ is_running
                 /\ pc'["timer"] = "scrape"
                 /\ run'["timer"].kind = "timer"
                 /\ runs' = runs + 1
          /\ (pc["timer"] # "idle" /\ pc'["timer"] # "idle") =>
                 /\ run'["timer"].stats.run = run["timer"].stats.run
                 /\ pc["timer"] # "scrape" => pc'["timer"] # "scrape"
                 /\ pc["timer"] \notin {"scrape", "insert"} =>
                        pc'["timer"] # "insert"]_vars

\* C27 as claimed: is_running follows stopped -> running -> stopped as above,
\* and each periodic tick that runs performs exactly one pipeline run
\* followed by one store insert.
C27_StateMachine ==
    /\ FlagAndJob
    /\ [][(pc["timer"] = "scrape" /\ pc'["timer"] # "scrape") =>
              pc'["timer"] = "insert"]_vars

\* C27 as amended: is_running follows stopped -> running -> stopped as
\* above, and each periodic tick that runs performs exactly one pipeline
\* run, followed by one store insert when the pipeline run returned and by
\* none when it raised.
C27_StateMachineOrFailedRun ==
    /\ FlagAndJob
    /\ [][(pc["timer"] = "scrape" /\ pc'["timer"] # "scrape") =>
              pc'["timer"] \in {"insert", "except"}]_vars

\* C27's case: start has registered the job and its immediate run was
\* recorded; a periodic run, the second run, is past its pipeline run and
\* its insert
C27_PeriodicRun ==
    /\ is_running /\ job_added
    /\ pc["loop"] = "idle" /\ returned.call = 0
    /\ last_stats.run = 1
    /\ pc["timer"] = "stats" /\ run["timer"].kind = "timer"
    /\ run["timer"].stats.run = 2

\* C29: a run of scrape_job that fails at any step (pipeline, store insert,
\* stats read) leaves last_scrape and last_stats as they were, does not
\* raise and does not stop the scheduler; a run that succeeds sets
\* last_scrape, and last_stats with new_articles as returned by its
\* add_articles and total_articles as read from the store after that insert.
C29_FailedRunKeepsStats ==
    [][/\ (last_stats' # last_stats \/ last_scrape' # last_scrape) =>
              \E t \in Threads :
                  /\ pc[t] = "record" /\ pc'[t] = "return"
                  /\ ~run[t].store_failed
                  /\ last_scrape' = run[t].stats.run
                  /\ last_stats' = run[t].stats
       /\ \A t \in Threads :
              (pc[t] = "except" /\ pc'[t] # "except") =>
                  /\ pc'[t] = "return"
                  /\ UNCHANGED <<last_stats, last_scrape, is_running, job_added>>
       /\ \A t \in Threads :
              (pc[t] = "insert" /\ pc'[t] = "stats") =>
                  \E out \in add_outcomes(csv, run[t].articles) :
                      csv' = out.file /\ run'[t].stats.new_articles = out.ret
       /\ \A t \in Threads :
              (pc[t] = "stats" /\ pc'[t] = "record" /\ ~run'[t].store_failed) =>
                  run'[t].stats.total_articles = total_articles(csv)
       /\ returned'.raised = FALSE]_vars

=============================================================================
